---- MODULE Spec2Model ----
(***************************************************************************)
(* Model of store/git.go: GitArtifactReader, which opens or clones a git   *)
(* repository in artifact.CloneDirectory, pulls from origin and returns    *)
(* the bytes of artifact.FilePath.                                         *)
(*                                                                         *)
(* Each reader walks through Read / readFromRepository one external        *)
(* operation at a time (PlainOpen, getGitAuth, getBranchOrTag, PlainClone, *)
(* Worktree, Pull, Filesystem.Open, file.Read).  The remote repository and *)
(* the local disk are the environment.                                     *)
(***************************************************************************)
EXTENDS Integers, Sequences, FiniteSets, TLC

(* ------------------------------ bounds --------------------------------- *)

\* number of commits the remote can receive during a behaviour
MaxRemote == 2

Readers == {"r1", "r2"}
\* the reader used by serialized callers
SerialReader == "r1"

Dirs == {"/tmp/c1", "/tmp/c2"}
BranchNames == {"", "main", "does-not-exist"}
TagNames == {"", "v1", "no-such-tag"}
FilePaths == {"config.yaml", "missing.yaml"}
KeyPaths == {"", "/keys/id_rsa"}

(* --------------------------- the environment --------------------------- *)

\* branches configured in a clone of the remote, with their merge reference
RemoteBranches == {"main"}
RemoteTags == {"v1"}
BranchMerge(b) == IF b = "main" THEN "refs/heads/main" ELSE ""
TagRef(t) == IF t = "v1" THEN "refs/tags/v1" ELSE ""

\* files of the remote tree at commit v, and their bytes
TreeFiles == {"config.yaml"}
FileContent(path, v) == <<100 + v, 10>>

\* a directory on disk: kind is absent (no repository), corrupt (PlainOpen
\* fails with another error), bare (repository without worktree) or
\* worktree; head is the checked-out commit, -1 when there is none
NoHead == 0 - 1
AbsentDir == [kind |-> "absent", head |-> NoHead]
CorruptDir == [kind |-> "corrupt", head |-> NoHead]
BareDir == [kind |-> "bare", head |-> 0]
WorkDir(h) == [kind |-> "worktree", head |-> h]
InitialDirs == {AbsentDir, CorruptDir, BareDir, WorkDir(0)}

(* ------------------------------ values --------------------------------- *)

NoCreds == "nil"
BasicCreds == "creds"

ArtifactSpecs ==
    [URL : {"https://example.com/repo.git"},
     CloneDirectory : Dirs,
     Branch : BranchNames,
     Tag : TagNames,
     FilePath : FilePaths,
     Creds : {NoCreds, BasicCreds},
     SSHKeyPath : KeyPaths,
     Namespace : {"argo-events"}]

NoArtifact == [URL |-> "", CloneDirectory |-> "", Branch |-> "", Tag |-> "",
               FilePath |-> "", Creds |-> NoCreds, SSHKeyPath |-> "",
               Namespace |-> ""]

\* transport.AuthMethod values
NilAuth == [method |-> "none", user |-> ""]
BasicAuth == [method |-> "basic", user |-> "username"]
PublicKeys == [method |-> "ssh", user |-> "git"]

\* plumbing.ReferenceName zero value
NoRef == ""

NoErr == "nil"
NoData == <<>>
NoResult == [kind |-> "none", data |-> NoData]
Failed(kind) == [kind |-> kind, data |-> NoData]
Returned(data) == [kind |-> "Ok", data |-> data]

Options == [Auth |-> NilAuth, ReferenceName |-> NoRef]
NoCall == [fresh |-> FALSE, cloneOpt |-> Options, pullOpts |-> Options,
           pullErr |-> NoErr, steady1 |-> FALSE, steady2 |-> FALSE]

Count(s, e) == Cardinality({i \in DOMAIN s : s[i] = e})
Has(s, e) == \E i \in DOMAIN s : s[i] = e

\* artifact[p]: the GitArtifact reader p was constructed with
VARIABLE artifact
\* pc[p]: the statement of Read / readFromRepository reader p is at
VARIABLE pc
\* call[p]: locals of the current call (clone and pull options, pull error)
\* and whether origin stayed unchanged since the previous and this call began
VARIABLE call
\* trace[p]: the external operations of the current call, in order
VARIABLE trace
\* result[p]: what the last finished call returned
VARIABLE result
\* prev[p]: what the call before it returned
VARIABLE prev
\* disk[d]: the contents of directory d
VARIABLE disk
\* remote: the head commit of origin
VARIABLE remote
\* cloned[d]: how many times git.PlainClone into d has succeeded
VARIABLE cloned

vars == <<artifact, pc, call, trace, result, prev, disk, remote, cloned>>

(* --------------------------- pure functions ---------------------------- *)

\* GetSecrets(client, namespace, name, key): the value of the secret, or an
\* error when the provider cannot deliver it (out = "err")
GetSecrets(out) ==
    IF out = "ok" THEN [value |-> "secret", err |-> NoErr]
    ELSE [value |-> "", err |-> "secret lookup failed"]

\* getSSHKeyAuth: key is the state of the private key file
getSSHKeyAuth(key) ==
    IF key = "unreadable"
    THEN [auth |-> NilAuth, err |-> "SSHKeyInvalid", ops |-> <<"sshkey.read">>]
    ELSE IF key = "unparsable"
    THEN [auth |-> NilAuth, err |-> "SSHKeyInvalid", ops |-> <<"sshkey.read">>]
    ELSE [auth |-> PublicKeys, err |-> NoErr, ops |-> <<"sshkey.read">>]

\* the SSH key path is consulted before the credential block
getGitAuth_sshFirst(a, uOut, pOut, key) ==
    IF a.SSHKeyPath # ""
    THEN getSSHKeyAuth(key)
    ELSE IF a.Creds # NoCreds
    THEN IF GetSecrets(uOut).err # NoErr \/ GetSecrets(pOut).err # NoErr
         THEN [auth |-> NilAuth, err |-> "SecretLookupFailed",
               ops |-> <<"secret.username", "secret.err">>]
         ELSE [auth |-> BasicAuth, err |-> NoErr,
               ops |-> <<"secret.username", "secret.password">>]
    ELSE [auth |-> NilAuth, err |-> NoErr, ops |-> <<>>]

\* a failed secret lookup falls back to anonymous access
getGitAuth_fallback(a, uOut, pOut, key) ==
    IF a.Creds # NoCreds
    THEN IF GetSecrets(uOut).err # NoErr
         THEN [auth |-> NilAuth, err |-> NoErr,
               ops |-> <<"secret.username", "secret.err">>]
         ELSE IF GetSecrets(pOut).err # NoErr
         THEN [auth |-> NilAuth, err |-> NoErr,
               ops |-> <<"secret.username", "secret.password", "secret.err">>]
         ELSE [auth |-> BasicAuth, err |-> NoErr,
               ops |-> <<"secret.username", "secret.password">>]
    ELSE IF a.SSHKeyPath # ""
    THEN getSSHKeyAuth(key)
    ELSE [auth |-> NilAuth, err |-> NoErr, ops |-> <<>>]

\* getGitAuth: uOut and pOut are the provider's answers to the username and
\* password lookups, key the state of the key file; ops lists the external
\* lookups made, in order, a failed secret lookup being followed by
\* "secret.err"
getGitAuth(a, uOut, pOut, key) ==
    IF a.Creds # NoCreds
    THEN IF GetSecrets(uOut).err # NoErr
         THEN [auth |-> NilAuth, err |-> "SecretLookupFailed",
               ops |-> <<"secret.username", "secret.err">>]
         ELSE IF GetSecrets(pOut).err # NoErr
         THEN [auth |-> NilAuth, err |-> "SecretLookupFailed",
               ops |-> <<"secret.username", "secret.password", "secret.err">>]
         ELSE [auth |-> BasicAuth, err |-> NoErr,
               ops |-> <<"secret.username", "secret.password">>]
    ELSE IF a.SSHKeyPath # ""
    THEN getSSHKeyAuth(key)
    ELSE [auth |-> NilAuth, err |-> NoErr, ops |-> <<>>]

\* the repository handle PlainOpen returns together with an error
NilRepo == [kind |-> "nil", head |-> NoHead]

\* branch configuration and tags of a local repository
RepoBranches(r) == IF r.head >= 0 THEN RemoteBranches ELSE {}
RepoTags(r) == IF r.head >= 0 THEN RemoteTags ELSE {}

\* the tag is looked up before the branch
getBranchOrTag_tagFirst(r, branch, tag) ==
    IF tag # ""
    THEN IF r = NilRepo
         THEN [ref |-> NoRef, err |-> "Panic", ops |-> <<"tag.lookup">>]
         ELSE IF tag \notin RepoTags(r)
         THEN [ref |-> NoRef, err |-> "TagNotFound", ops |-> <<"tag.lookup">>]
         ELSE [ref |-> TagRef(tag), err |-> NoErr, ops |-> <<"tag.lookup">>]
    ELSE IF branch # ""
    THEN IF r = NilRepo
         THEN [ref |-> NoRef, err |-> "Panic", ops |-> <<"branch.lookup">>]
         ELSE IF branch \notin RepoBranches(r)
         THEN [ref |-> NoRef, err |-> "BranchNotFound",
               ops |-> <<"branch.lookup">>]
         ELSE [ref |-> BranchMerge(branch), err |-> NoErr,
               ops |-> <<"branch.lookup">>]
    ELSE [ref |-> NoRef, err |-> NoErr, ops |-> <<>>]

\* getBranchOrTag(r, branch, tag).  r.Branch and r.Tag read the storer of
\* the repository, so on the nil handle they dereference a nil pointer.
getBranchOrTag(r, branch, tag) ==
    IF branch # ""
    THEN IF r = NilRepo
         THEN [ref |-> NoRef, err |-> "Panic", ops |-> <<"branch.lookup">>]
         ELSE IF branch \notin RepoBranches(r)
         THEN [ref |-> NoRef, err |-> "BranchNotFound",
               ops |-> <<"branch.lookup">>]
         ELSE [ref |-> BranchMerge(branch), err |-> NoErr,
               ops |-> <<"branch.lookup">>]
    ELSE IF tag # ""
    THEN IF r = NilRepo
         THEN [ref |-> NoRef, err |-> "Panic", ops |-> <<"tag.lookup">>]
         ELSE IF tag \notin RepoTags(r)
         THEN [ref |-> NoRef, err |-> "TagNotFound", ops |-> <<"tag.lookup">>]
         ELSE [ref |-> TagRef(tag), err |-> NoErr, ops |-> <<"tag.lookup">>]
    ELSE [ref |-> NoRef, err |-> NoErr, ops |-> <<>>]

\* git.PlainOpen(path): the error it returns for a directory
PlainOpen(d) ==
    IF d.kind = "absent" THEN "ErrRepositoryNotExists"
    ELSE IF d.kind = "corrupt" THEN "open error"
    ELSE NoErr

\* every failure to open is taken for a missing repository
AfterOpen_cloneOnAnyError(err) ==
    IF err = NoErr THEN "worktree" ELSE "auth1"

\* Read, lines 147, 148, 176 and 178: where Read goes with PlainOpen's error
AfterOpen(err) ==
    IF err = NoErr THEN "worktree"
    ELSE IF err = "ErrRepositoryNotExists" THEN "auth1"
    ELSE "ready"

\* a cloned repository is read without the pull
AfterClone_skipPull == "fileopen"

\* Read, line 174: a cloned repository goes through readFromRepository
AfterClone == "worktree"

\* w.Pull: the error returned for a worktree at head when origin is at
\* remoteHead; NoErrAlreadyUpToDate is an error value
PullErr(head, remoteHead, transportOk) ==
    IF ~transportOk THEN "transport error"
    ELSE IF head = remoteHead THEN "already up-to-date"
    ELSE NoErr

\* the error of the pull is dropped
PullFails_ignore(err) == FALSE

\* the check of line 109: does readFromRepository give up after the pull
PullFails(err) == err # NoErr

Min(a, b) == IF a < b THEN a ELSE b

\* file.Read(buf): fills buf with at most Len(buf) bytes of content
fileRead(buf, content) ==
    LET n == Min(Len(buf), Len(content))
    IN [data |-> SubSeq(content, 1, n) \o SubSeq(buf, n + 1, Len(buf)),
        err |-> IF n = 0 /\ Len(buf) > 0 THEN "EOF" ELSE NoErr]

\* var data []byte
ReadBuffer == <<>>

(* ------------------------------ actions -------------------------------- *)

Init ==
    /\ artifact = [p \in Readers |-> NoArtifact]
    /\ pc = [p \in Readers |-> "none"]
    /\ call = [p \in Readers |-> NoCall]
    /\ trace = [p \in Readers |-> <<>>]
    /\ result = [p \in Readers |-> NoResult]
    /\ prev = [p \in Readers |-> NoResult]
    /\ disk \in [Dirs -> InitialDirs]
    /\ remote = 0
    /\ cloned = [d \in Dirs |-> 0]

\* every reader works in the same directory
Dir_shared(p) == "/tmp/c1"

Dir(p) == artifact[p].CloneDirectory

\* return res to the caller
Return(p, res, ops) ==
    /\ pc' = [pc EXCEPT ![p] = "ready"]
    /\ result' = [result EXCEPT ![p] = res]
    /\ trace' = [trace EXCEPT ![p] = @ \o ops]

Goto(p, label, ops) ==
    /\ pc' = [pc EXCEPT ![p] = label]
    /\ trace' = [trace EXCEPT ![p] = @ \o ops]
    /\ UNCHANGED result

NewGitReader(p, a) ==
    /\ pc[p] = "none"
    /\ artifact' = [artifact EXCEPT ![p] = a]
    /\ pc' = [pc EXCEPT ![p] = "ready"]
    /\ UNCHANGED <<call, trace, result, prev, disk, remote, cloned>>

\* Read waits while another call is at work in the same directory
Read_locked(p) ==
    /\ pc[p] = "ready"
    /\ \A q \in Readers \ {p} :
           pc[q] \in {"none", "ready"} \/ Dir(q) # Dir(p)
    /\ prev' = [prev EXCEPT ![p] = result[p]]
    /\ LET err == PlainOpen(disk[Dir(p)])
           c == [NoCall EXCEPT !.fresh = (err = "ErrRepositoryNotExists"),
                               !.steady1 = (result[p] # NoResult
                                            /\ call[p].steady2),
                               !.steady2 = TRUE]
       IN /\ call' = [call EXCEPT ![p] = c]
          /\ trace' = [trace EXCEPT ![p] = <<"open">>]
          /\ pc' = [pc EXCEPT ![p] = AfterOpen(err)]
          /\ result' = [result EXCEPT ![p] =
                            IF AfterOpen(err) = "ready"
                            THEN Failed("RepositoryOpenFailed")
                            ELSE NoResult]
    /\ UNCHANGED <<artifact, disk, remote, cloned>>

\* Read, lines 146-148 and 176-178: entry and git.PlainOpen
Read(p) ==
    /\ pc[p] = "ready"
    /\ prev' = [prev EXCEPT ![p] = result[p]]
    /\ LET err == PlainOpen(disk[Dir(p)])
           c == [NoCall EXCEPT !.fresh = (err = "ErrRepositoryNotExists"),
                               !.steady1 = (result[p] # NoResult
                                            /\ call[p].steady2),
                               !.steady2 = TRUE]
       IN /\ call' = [call EXCEPT ![p] = c]
          /\ trace' = [trace EXCEPT ![p] = <<"open">>]
          /\ pc' = [pc EXCEPT ![p] = AfterOpen(err)]
          /\ result' = [result EXCEPT ![p] =
                            IF AfterOpen(err) = "ready"
                            THEN Failed("RepositoryOpenFailed")
                            ELSE NoResult]
    /\ UNCHANGED <<artifact, disk, remote, cloned>>

\* Read, lines 149-160: clone options and authentication
ReadAuth(p) ==
    /\ pc[p] = "auth1"
    /\ \E uOut \in {"ok", "err"}, pOut \in {"ok", "err"},
          key \in {"ok", "unreadable", "unparsable"} :
        LET r == getGitAuth(artifact[p], uOut, pOut, key)
        IN IF r.err # NoErr
           THEN /\ Return(p, Failed(r.err), <<"auth">> \o r.ops)
                /\ UNCHANGED call
           ELSE /\ Goto(p, "ref1", <<"auth">> \o r.ops)
                /\ call' = [call EXCEPT ![p].cloneOpt.Auth = r.auth]
    /\ UNCHANGED <<artifact, prev, disk, remote, cloned>>

\* Read, lines 162-168: the reference of the clone, looked up in the
\* handle PlainOpen returned with its error
ReadRef(p) ==
    /\ pc[p] = "ref1"
    /\ LET r == getBranchOrTag(NilRepo, artifact[p].Branch, artifact[p].Tag)
       IN IF r.err # NoErr
          THEN /\ Return(p, Failed(r.err), <<"ref">> \o r.ops)
               /\ UNCHANGED call
          ELSE /\ Goto(p, "clone", <<"ref">> \o r.ops)
               /\ call' = [call EXCEPT ![p].cloneOpt.ReferenceName = r.ref]
    /\ UNCHANGED <<artifact, prev, disk, remote, cloned>>

\* a failed clone is attempted a second time
ReadClone_retry(p) ==
    /\ pc[p] = "clone"
    /\ IF disk[Dir(p)].kind # "absent"
       THEN /\ Return(p, Failed("CloneFailed"), <<"clone">>)
            /\ UNCHANGED <<disk, cloned>>
       ELSE \E out \in {"ok", "failed", "interrupted"} :
              IF out = "ok"
              THEN /\ Goto(p, AfterClone, <<"clone">>)
                   /\ disk' = [disk EXCEPT ![Dir(p)] = WorkDir(remote)]
                   /\ cloned' = [cloned EXCEPT ![Dir(p)] = @ + 1]
              ELSE /\ IF Count(trace[p], "clone") = 0
                      THEN Goto(p, "clone", <<"clone">>)
                      ELSE Return(p, Failed("CloneFailed"), <<"clone">>)
                   /\ UNCHANGED <<disk, cloned>>
    /\ UNCHANGED <<artifact, call, prev, remote>>

\* Read, lines 170-174: git.PlainClone
ReadClone(p) ==
    /\ pc[p] = "clone"
    /\ IF disk[Dir(p)].kind # "absent"
       THEN \* ErrRepositoryAlreadyExists
            /\ Return(p, Failed("CloneFailed"), <<"clone">>)
            /\ UNCHANGED <<disk, cloned>>
       ELSE \E out \in {"ok", "failed", "interrupted"} :
              IF out = "ok"
              THEN /\ Goto(p, AfterClone, <<"clone">>)
                   /\ disk' = [disk EXCEPT ![Dir(p)] = WorkDir(remote)]
                   /\ cloned' = [cloned EXCEPT ![Dir(p)] = @ + 1]
              ELSE /\ Return(p, Failed("CloneFailed"), <<"clone">>)
                   /\ UNCHANGED cloned
                   /\ disk' = [disk EXCEPT ![Dir(p)] =
                                 IF out = "failed" THEN AbsentDir
                                 ELSE WorkDir(NoHead)]
    /\ UNCHANGED <<artifact, call, prev, remote>>

\* a repository without worktree is removed from the directory
Worktree_cleanup(p) ==
    /\ pc[p] = "worktree"
    /\ IF disk[Dir(p)].kind = "bare"
       THEN /\ Return(p, Failed("WorktreeUnavailable"), <<"worktree">>)
            /\ disk' = [disk EXCEPT ![Dir(p)] = AbsentDir]
       ELSE /\ Goto(p, "auth2", <<"worktree">>)
            /\ UNCHANGED disk
    /\ UNCHANGED <<artifact, call, prev, remote, cloned>>

\* readFromRepository, lines 83-91: r.Worktree()
Worktree(p) ==
    /\ pc[p] = "worktree"
    /\ IF disk[Dir(p)].kind = "bare"
       THEN Return(p, Failed("WorktreeUnavailable"), <<"worktree">>)
       ELSE Goto(p, "auth2", <<"worktree">>)
    /\ UNCHANGED <<artifact, call, prev, disk, remote, cloned>>

\* the credential resolved for the clone is kept for the pull
PullAuth_cached(p) ==
    /\ pc[p] = "auth2"
    /\ \E uOut \in {"ok", "err"}, pOut \in {"ok", "err"},
          key \in {"ok", "unreadable", "unparsable"} :
        LET r == IF call[p].fresh
                 THEN [auth |-> call[p].cloneOpt.Auth, err |-> NoErr,
                       ops |-> <<>>]
                 ELSE getGitAuth(artifact[p], uOut, pOut, key)
        IN IF r.err # NoErr
           THEN /\ Return(p, Failed(r.err), <<"auth">> \o r.ops)
                /\ UNCHANGED call
           ELSE /\ Goto(p, "ref2", <<"auth">> \o r.ops)
                /\ call' = [call EXCEPT ![p].pullOpts.Auth = r.auth]
    /\ UNCHANGED <<artifact, prev, disk, remote, cloned>>

\* readFromRepository, lines 93-99
PullAuth(p) ==
    /\ pc[p] = "auth2"
    /\ \E uOut \in {"ok", "err"}, pOut \in {"ok", "err"},
          key \in {"ok", "unreadable", "unparsable"} :
        LET r == getGitAuth(artifact[p], uOut, pOut, key)
        IN IF r.err # NoErr
           THEN /\ Return(p, Failed(r.err), <<"auth">> \o r.ops)
                /\ UNCHANGED call
           ELSE /\ Goto(p, "ref2", <<"auth">> \o r.ops)
                /\ call' = [call EXCEPT ![p].pullOpts.Auth = r.auth]
    /\ UNCHANGED <<artifact, prev, disk, remote, cloned>>

\* the resolved reference is written back into the artifact's branch
PullRef_storeRef(p) ==
    /\ pc[p] = "ref2"
    /\ LET r == getBranchOrTag(disk[Dir(p)], artifact[p].Branch,
                               artifact[p].Tag)
       IN IF r.err # NoErr
          THEN /\ Return(p, Failed(r.err), <<"ref">> \o r.ops)
               /\ UNCHANGED <<call, artifact>>
          ELSE /\ Goto(p, "pull", <<"ref">> \o r.ops)
               /\ call' = [call EXCEPT ![p].pullOpts.ReferenceName = r.ref]
               /\ artifact' = [artifact EXCEPT ![p].Branch = r.ref]
    /\ UNCHANGED <<prev, disk, remote, cloned>>

\* readFromRepository, lines 101-107
PullRef(p) ==
    /\ pc[p] = "ref2"
    /\ LET r == getBranchOrTag(disk[Dir(p)], artifact[p].Branch,
                               artifact[p].Tag)
       IN IF r.err # NoErr
          THEN /\ Return(p, Failed(r.err), <<"ref">> \o r.ops)
               /\ UNCHANGED call
          ELSE /\ Goto(p, "pull", <<"ref">> \o r.ops)
               /\ call' = [call EXCEPT ![p].pullOpts.ReferenceName = r.ref]
    /\ UNCHANGED <<artifact, prev, disk, remote, cloned>>

\* a pull that fails in the transport removes the clone
Pull_cleanup(p) ==
    /\ pc[p] = "pull"
    /\ \E transportOk \in BOOLEAN :
        LET err == PullErr(disk[Dir(p)].head, remote, transportOk)
        IN /\ call' = [call EXCEPT ![p].pullErr = err]
           /\ disk' = [disk EXCEPT ![Dir(p)] =
                          IF transportOk THEN [@ EXCEPT !.head = remote]
                          ELSE AbsentDir]
           /\ IF PullFails(err)
              THEN Return(p, Failed("PullFailed"), <<"pull">>)
              ELSE Goto(p, "fileopen", <<"pull">>)
    /\ UNCHANGED <<artifact, prev, remote, cloned>>

\* readFromRepository, lines 109-111: w.Pull(pullOpts)
Pull(p) ==
    /\ pc[p] = "pull"
    /\ \E transportOk \in BOOLEAN :
        LET err == PullErr(disk[Dir(p)].head, remote, transportOk)
        IN /\ call' = [call EXCEPT ![p].pullErr = err]
           /\ disk' = [disk EXCEPT ![Dir(p)].head =
                          IF transportOk THEN remote ELSE @]
           /\ IF PullFails(err)
              THEN Return(p, Failed("PullFailed"), <<"pull">>)
              ELSE Goto(p, "fileopen", <<"pull">>)
    /\ UNCHANGED <<artifact, prev, remote, cloned>>

\* readFromRepository, lines 113-116: w.Filesystem.Open
FileOpen(p) ==
    /\ pc[p] = "fileopen"
    /\ IF artifact[p].FilePath \in TreeFiles
       THEN Goto(p, "fileread", <<"file.open">>)
       ELSE Return(p, Failed("FileOpenFailed"), <<"file.open">>)
    /\ UNCHANGED <<artifact, call, prev, disk, remote, cloned>>

\* readFromRepository, lines 118-123: file.Read(data); return data
FileRead(p) ==
    /\ pc[p] = "fileread"
    /\ LET r == fileRead(ReadBuffer,
                         FileContent(artifact[p].FilePath, disk[Dir(p)].head))
       IN IF r.err # NoErr
          THEN Return(p, Failed("FileReadFailed"), <<"file.read">>)
          ELSE Return(p, Returned(r.data), <<"file.read">>)
    /\ UNCHANGED <<artifact, call, prev, disk, remote, cloned>>

\* a commit is pushed to origin
RemotePush ==
    /\ remote < MaxRemote
    /\ remote' = remote + 1
    /\ call' = [p \in Readers |-> [call[p] EXCEPT !.steady2 = FALSE]]
    /\ UNCHANGED <<artifact, pc, trace, result, prev, disk, cloned>>

Step(p) ==
    \/ \E a \in ArtifactSpecs : NewGitReader(p, a)
    \/ Read(p)
    \/ ReadAuth(p)
    \/ ReadRef(p)
    \/ ReadClone(p)
    \/ Worktree(p)
    \/ PullAuth(p)
    \/ PullRef(p)
    \/ Pull(p)
    \/ FileOpen(p)
    \/ FileRead(p)

\* one caller: Read calls are serialized
Next ==
    \/ Step(SerialReader)
    \/ RemotePush

Spec == Init /\ [][Next]_vars

\* the artifacts of concurrent callers
ConcurrentSpecs ==
    {a \in ArtifactSpecs :
        /\ a.Branch \in {"", "main"}
        /\ a.Tag = ""
        /\ a.FilePath = "config.yaml"
        /\ a.SSHKeyPath = ""}

\* a step inside a call, of whichever reader: nothing orders the calls of
\* different readers
Call(p) ==
    \/ ReadAuth(p)
    \/ ReadRef(p)
    \/ ReadClone(p)
    \/ Worktree(p)
    \/ PullAuth(p)
    \/ PullRef(p)
    \/ Pull(p)
    \/ FileOpen(p)
    \/ FileRead(p)

\* the first Read call of reader p
FirstRead(p) == trace[p] = <<>> /\ Read(p)

\* several callers, each with its own reader and one Read call, not
\* serialized
NextConcurrent ==
    \/ \E p \in Readers : \E a \in ConcurrentSpecs : NewGitReader(p, a)
    \/ \E p \in Readers : FirstRead(p)
    \/ \E p \in Readers : Call(p)
    \/ RemotePush

SpecConcurrent == Init /\ [][NextConcurrent]_vars

(* ------------------------- observations of a call ---------------------- *)

\* the call of reader p has returned
Done(p) == pc[p] = "ready" /\ result[p] # NoResult

Clones(p) == Count(trace[p], "clone")
Pulls(p) == Count(trace[p], "pull")

\* position of the first occurrence of e in s, 0 when there is none
IndexOf(s, e) ==
    IF Has(s, e) THEN CHOOSE i \in DOMAIN s :
                        s[i] = e /\ \A j \in 1..(i - 1) : s[j] # e
    ELSE 0

\* the call failed in authentication resolution, reference resolution or
\* the clone
FailedBeforePull(p) ==
    result[p].kind \in {"SecretLookupFailed", "SSHKeyInvalid",
                        "BranchNotFound", "TagNotFound", "Panic",
                        "CloneFailed"}

(* -------------------------------- claims ------------------------------- *)

\* C1: a returned Read call that found no repository in cloneDirectory has
\* made exactly one clone and then exactly one pull; one that found a
\* repository with a worktree has made no clone and exactly one pull
\* (unless authentication resolution, reference resolution or the clone
\* failed).
C1_CloneVsPull ==
    \A p \in Readers :
        (Done(p) /\ ~FailedBeforePull(p)) =>
            /\ call[p].fresh =>
                 /\ Clones(p) = 1
                 /\ Pulls(p) = 1
                 /\ IndexOf(trace[p], "clone") < IndexOf(trace[p], "pull")
            /\ (~call[p].fresh /\ disk[Dir(p)].kind = "worktree") =>
                 /\ Clones(p) = 0
                 /\ Pulls(p) = 1

C1_Witness_Fresh ==
    \E p \in Readers :
        Done(p) /\ ~FailedBeforePull(p) /\ call[p].fresh
        /\ Clones(p) = 1 /\ Pulls(p) = 1

C1_Witness_Existing ==
    \E p \in Readers :
        Done(p) /\ ~FailedBeforePull(p) /\ ~call[p].fresh
        /\ disk[Dir(p)].kind = "worktree" /\ Has(trace[p], "worktree")
        /\ Clones(p) = 0 /\ Pulls(p) = 1

\* C2: when the pull reports that the clone already matches origin, Read
\* does not fail with PullFailed.
C2_UpToDateIsSuccess ==
    \A p \in Readers :
        (Done(p) /\ call[p].pullErr = "already up-to-date") =>
            result[p].kind # "PullFailed"

\* C3: a Read that returns without error returns the entire content of
\* the file at filePath in the working tree after the pull.
C3_FullContent ==
    \A p \in Readers :
        (Done(p) /\ result[p].kind = "Ok") =>
            result[p].data = FileContent(artifact[p].FilePath,
                                         disk[Dir(p)].head)

\* C4: on a cloneDirectory without repository, a Read with a branch of the
\* remote and no credentials makes one clone whose reference is the
\* branch's reference; with neither branch nor tag the clone carries no
\* reference.
C4_CloneAtBranch ==
    \A p \in Readers :
        (Done(p) /\ call[p].fresh /\ artifact[p].Creds = NoCreds
         /\ artifact[p].SSHKeyPath = "") =>
            /\ artifact[p].Branch \in RemoteBranches =>
                 /\ Clones(p) = 1
                 /\ call[p].cloneOpt.ReferenceName
                        = BranchMerge(artifact[p].Branch)
            /\ (artifact[p].Branch = "" /\ artifact[p].Tag = "") =>
                 /\ Clones(p) = 1
                 /\ call[p].cloneOpt.ReferenceName = NoRef

\* the environment did not fail the call: no secret lookup, key file or
\* transport failure
NoOutsideFailure(p) ==
    /\ result[p].kind \notin {"SecretLookupFailed", "SSHKeyInvalid",
                              "CloneFailed"}
    /\ call[p].pullErr # "transport error"

\* C5: two consecutive Read calls with the same ArtifactSpec and an
\* unchanged remote return the same bytes.
C5_Idempotent ==
    \A p \in Readers :
        (Done(p) /\ prev[p].kind = "Ok" /\ call[p].steady1
         /\ call[p].steady2 /\ NoOutsideFailure(p)) =>
            result[p] = prev[p]

\* the credential the configuration of a selects
ExpectedAuth(a) ==
    IF a.Creds # NoCreds THEN BasicAuth
    ELSE IF a.SSHKeyPath # "" THEN PublicKeys
    ELSE NilAuth

AuthResolvedForClone(p) == pc[p] \in {"ref1", "clone"}
AuthResolvedForPull(p) == pc[p] \in {"ref2", "pull", "fileopen", "fileread"}

\* C6: the resolved authentication depends on the credential configuration
\* only: basic-auth when a credential block is configured, and then the SSH
\* key file is never read; otherwise public keys of user "git" when an SSH
\* key path is set; otherwise none, and then the Secret Provider is never
\* called.
C6_AuthPrecedence ==
    \A p \in Readers :
        /\ AuthResolvedForClone(p) =>
               call[p].cloneOpt.Auth = ExpectedAuth(artifact[p])
        /\ AuthResolvedForPull(p) =>
               call[p].pullOpts.Auth = ExpectedAuth(artifact[p])
        /\ artifact[p].Creds # NoCreds => ~Has(trace[p], "sshkey.read")
        /\ artifact[p].Creds = NoCreds =>
               /\ ~Has(trace[p], "secret.username")
               /\ ~Has(trace[p], "secret.password")
        /\ (artifact[p].Creds = NoCreds /\ artifact[p].SSHKeyPath = "") =>
               ~Has(trace[p], "sshkey.read")

C6_Witness ==
    \E p \in Readers :
        /\ artifact[p].Creds # NoCreds
        /\ artifact[p].SSHKeyPath # ""
        /\ pc[p] = "pull"
        /\ call[p].pullOpts.Auth = BasicAuth
        /\ Has(trace[p], "secret.password")

\* the reference the branch and tag of a select
ExpectedRef(a) ==
    IF a.Branch # "" THEN BranchMerge(a.Branch)
    ELSE IF a.Tag # "" THEN TagRef(a.Tag)
    ELSE NoRef

\* C7: with a branch set, reference resolution returns the branch's merge
\* reference and never looks up the tag; the tag is looked up and returned
\* only when the branch is empty; with both empty nothing is looked up and
\* the pull carries no reference.
C7_RefPrecedence ==
    \A p \in Readers :
        /\ artifact[p].Branch # "" => ~Has(trace[p], "tag.lookup")
        /\ artifact[p].Branch = "" => ~Has(trace[p], "branch.lookup")
        /\ (artifact[p].Branch = "" /\ artifact[p].Tag = "") =>
               ~Has(trace[p], "tag.lookup")
        /\ pc[p] \in {"pull", "fileopen", "fileread"} =>
               /\ call[p].pullOpts.ReferenceName = ExpectedRef(artifact[p])
               /\ (artifact[p].Branch # "" \/ artifact[p].Tag # "") =>
                      call[p].pullOpts.ReferenceName # NoRef

C7_Witness ==
    \E p \in Readers :
        /\ artifact[p].Branch = "main"
        /\ artifact[p].Tag = "v1"
        /\ pc[p] = "pull"
        /\ call[p].pullOpts.ReferenceName = "refs/heads/main"
        /\ Has(trace[p], "branch.lookup")

\* C8: a Read that looks up a branch that does not exist fails with
\* BranchNotFound, a Read with empty branch that looks up a tag that does
\* not exist fails with TagNotFound, and neither makes a clone or a pull.
C8_MissingRef ==
    \A p \in Readers :
        /\ (Has(trace[p], "branch.lookup")
            /\ artifact[p].Branch \notin RemoteBranches
            /\ artifact[p].Tag = "") =>
               /\ Done(p)
               /\ result[p].kind = "BranchNotFound"
               /\ Clones(p) = 0
               /\ Pulls(p) = 0
        /\ (Has(trace[p], "tag.lookup")
            /\ artifact[p].Branch = ""
            /\ artifact[p].Tag \notin RemoteTags) =>
               /\ Done(p)
               /\ result[p].kind = "TagNotFound"
               /\ Clones(p) = 0
               /\ Pulls(p) = 0

Last(s) == s[Len(s)]

\* C9 as stated: a failed secret lookup makes Read fail with
\* SecretLookupFailed without reading the SSH key, and the call makes no
\* clone and no pull.
C9_NoCloneNoPull ==
    \A p \in Readers :
        Has(trace[p], "secret.err") =>
            /\ Done(p)
            /\ result[p].kind = "SecretLookupFailed"
            /\ ~Has(trace[p], "sshkey.read")
            /\ Clones(p) = 0
            /\ Pulls(p) = 0

\* C9 as amended: a failed secret lookup makes Read fail with
\* SecretLookupFailed at once, without reading the SSH key and without a
\* pull; no clone is made on the existing-repository path, and on the
\* fresh path a clone was made only when the failed lookup belongs to the
\* second authentication resolution.
C9_CredentialFailure ==
    \A p \in Readers :
        Has(trace[p], "secret.err") =>
            /\ Done(p)
            /\ result[p].kind = "SecretLookupFailed"
            /\ Last(trace[p]) = "secret.err"
            /\ ~Has(trace[p], "sshkey.read")
            /\ Pulls(p) = 0
            /\ ~call[p].fresh => Clones(p) = 0
            /\ (Clones(p) = 0) <=>
                   (Count(trace[p], "auth") = 1 \/ ~call[p].fresh)
            /\ Clones(p) <= 1

C9_Witness ==
    \E p \in Readers :
        /\ Has(trace[p], "secret.err")
        /\ result[p].kind = "SecretLookupFailed"
        /\ call[p].fresh
        /\ Clones(p) = 1
        /\ Count(trace[p], "auth") = 2

\* C10: when opening cloneDirectory fails for another reason than a
\* missing repository, Read fails with RepositoryOpenFailed after the open
\* alone: no authentication resolution, no clone, no pull; a clone is made
\* only after the open found no repository.
C10_OpenFailure ==
    \A p \in Readers :
        /\ (trace[p] # <<>> /\ disk[Dir(p)].kind = "corrupt") =>
               /\ Done(p)
               /\ result[p].kind = "RepositoryOpenFailed"
               /\ trace[p] = <<"open">>
        /\ result[p].kind = "RepositoryOpenFailed" =>
               disk[Dir(p)].kind = "corrupt"
        /\ Has(trace[p], "clone") => call[p].fresh

C10_Witness ==
    \E p \in Readers :
        /\ result[p].kind = "RepositoryOpenFailed"
        /\ trace[p] = <<"open">>
        /\ disk[Dir(p)].kind = "corrupt"

\* C11: over serialized Read calls a directory receives at most one
\* successful clone; once it has, every later call on it opens the
\* repository and makes no clone; and no step removes or replaces a
\* repository that is in a directory.
C11_CloneReuse ==
    /\ [](\A d \in Dirs :
            /\ cloned[d] <= 1
            /\ cloned[d] = 1 => disk[d].kind = "worktree"
            /\ \A p \in Readers :
                 (cloned[d] = 1 /\ trace[p] # <<>> /\ Dir(p) = d) =>
                     IF Has(trace[p], "clone")
                     THEN call[p].fresh /\ Clones(p) = 1
                     ELSE ~call[p].fresh)
    /\ [][\A d \in Dirs :
            disk[d].kind # "absent" => disk'[d].kind = disk[d].kind]_vars

C11_Witness ==
    \E p \in Readers :
        /\ Done(p)
        /\ cloned[Dir(p)] = 1
        /\ ~call[p].fresh
        /\ Clones(p) = 0
        /\ Pulls(p) = 1

\* C14: a Read that opens the file, and so every Read that returns bytes,
\* has before that completed one pull in the same call, also when the
\* repository was cloned in that call.
C14_PullBeforeRead ==
    \A p \in Readers :
        /\ Has(trace[p], "file.open") =>
               /\ Pulls(p) = 1
               /\ call[p].pullErr # "transport error"
               /\ IndexOf(trace[p], "pull") < IndexOf(trace[p], "file.open")
               /\ Has(trace[p], "clone") =>
                      IndexOf(trace[p], "clone") < IndexOf(trace[p], "pull")
        /\ result[p].kind = "Ok" => Has(trace[p], "file.open")

C14_Witness ==
    \E p \in Readers :
        /\ result[p].kind = "Ok"
        /\ Clones(p) = 1
        /\ Pulls(p) = 1

\* C15: a Read whose clone fails returns CloneFailed after that one clone:
\* no second clone, no worktree access, no pull, no file open.
C15_CloneFailure ==
    \A p \in Readers :
        /\ (pc[p] = "ready" /\ trace[p] # <<>>
            /\ Last(trace[p]) = "clone") =>
               result[p].kind = "CloneFailed"
        /\ result[p].kind = "CloneFailed" =>
               /\ Clones(p) = 1
               /\ Last(trace[p]) = "clone"
               /\ ~Has(trace[p], "worktree")
               /\ Pulls(p) = 0
               /\ ~Has(trace[p], "file.open")

C15_Witness ==
    \E p \in Readers :
        /\ result[p].kind = "CloneFailed"
        /\ Clones(p) = 1
        /\ disk[Dir(p)].kind = "absent"

\* the steps of Read, without the lookups made inside them
StepOps == {"open", "auth", "ref", "clone", "worktree", "pull",
            "file.open", "file.read"}
IsStepOp(e) == e \in StepOps
Steps(p) == SelectSeq(trace[p], IsStepOp)
IsPrefix(s, t) == Len(s) <= Len(t) /\ SubSeq(t, 1, Len(s)) = s

FreshOrder == <<"open", "auth", "ref", "clone", "worktree", "auth", "ref",
                "pull", "file.open", "file.read">>
ExistingOrder == <<"open", "worktree", "auth", "ref", "pull", "file.open",
                   "file.read">>

\* C16: the steps of a call run in the order open, auth, ref, clone,
\* worktree, auth, ref, pull, file open, file read on the fresh path and
\* open, worktree, auth, ref, pull, file open, file read on the existing
\* path; with basic-auth a call that reached the pull has looked up
\* username and password twice each on the fresh path, once each on the
\* existing path.
C16_StepOrder ==
    \A p \in Readers :
        /\ IsPrefix(Steps(p), IF call[p].fresh THEN FreshOrder
                              ELSE ExistingOrder)
        /\ (Has(trace[p], "pull") /\ artifact[p].Creds # NoCreds) =>
               /\ Count(trace[p], "secret.username")
                      = IF call[p].fresh THEN 2 ELSE 1
               /\ Count(trace[p], "secret.password")
                      = IF call[p].fresh THEN 2 ELSE 1

C16_Witness ==
    \E p \in Readers :
        /\ call[p].fresh
        /\ artifact[p].Creds # NoCreds
        /\ Has(trace[p], "pull")
        /\ Count(trace[p], "secret.username") = 2
        /\ Count(trace[p], "secret.password") = 2

\* C17: the contents of a directory change only in a clone or a pull of a
\* call on that directory, so a call that fails before its clone or pull
\* leaves cloneDirectory as it was.
C17_FailureLeavesDisk ==
    [][\A d \in Dirs :
         disk'[d] # disk[d] =>
             \E p \in Readers :
                 /\ artifact[p].CloneDirectory = d
                 /\ \/ trace'[p] = Append(trace[p], "clone")
                    \/ trace'[p] = Append(trace[p], "pull")]_vars

C17_Witness ==
    \E p \in Readers :
        /\ Done(p)
        /\ result[p].kind \in {"RepositoryOpenFailed", "SecretLookupFailed",
                               "SSHKeyInvalid", "BranchNotFound",
                               "TagNotFound", "WorktreeUnavailable"}
        /\ Clones(p) = 0
        /\ Pulls(p) = 0
        /\ prev[p] = result[p]

\* the errors Read returns
ErrorKinds == {"RepositoryOpenFailed", "CloneFailed", "SecretLookupFailed",
               "SSHKeyInvalid", "BranchNotFound", "TagNotFound",
               "WorktreeUnavailable", "PullFailed", "FileOpenFailed",
               "FileReadFailed"}

\* C18: within a call the open, the clone, the pull and the file open
\* happen at most once and authentication and reference resolution at most
\* twice; nothing runs after a failed step; a finished call has returned
\* either bytes or an error.
C18_NoRetry ==
    \A p \in Readers :
        /\ Count(trace[p], "open") <= 1
        /\ Clones(p) <= 1
        /\ Pulls(p) <= 1
        /\ Count(trace[p], "file.open") <= 1
        /\ Count(trace[p], "auth") <= 2
        /\ Count(trace[p], "ref") <= 2
        /\ Done(p) =>
               \/ result[p].kind = "Ok" /\ Last(trace[p]) = "file.read"
               \/ result[p].kind \in ErrorKinds /\ result[p].data = NoData

\* C19: no step of a Read call changes the artifact the reader holds.
C19_ArtifactUnchanged ==
    [][\A p \in Readers :
         pc[p] # "none" => artifact'[p] = artifact[p]]_vars

C19_Witness ==
    \E p \in Readers :
        /\ Done(p)
        /\ artifact[p].Branch = "main"
        /\ Has(trace[p], "branch.lookup")
        /\ Has(trace[p], "pull")
        /\ call[p].pullOpts.ReferenceName = "refs/heads/main"

\* reader p takes a step
Moves(p) == pc'[p] # pc[p] \/ trace'[p] # trace[p]

\* C12: a step of one reader leaves the other readers' calls and every
\* directory but its own cloneDirectory as they were, so calls on different
\* directories do not affect each other in any interleaving.
C12_Independent ==
    [][\A p \in Readers :
         Moves(p) =>
             /\ \A q \in Readers \ {p} :
                    /\ artifact'[q] = artifact[q]
                    /\ pc'[q] = pc[q]
                    /\ call'[q] = call[q]
                    /\ trace'[q] = trace[q]
                    /\ result'[q] = result[q]
                    /\ prev'[q] = prev[q]
             /\ \A d \in Dirs \ {artifact'[p].CloneDirectory} :
                    /\ disk'[d] = disk[d]
                    /\ cloned'[d] = cloned[d]
             /\ remote' = remote]_vars

C12_Witness ==
    \E p, q \in Readers :
        /\ pc[p] = "pull"
        /\ pc[q] = "clone"
        /\ artifact[p].CloneDirectory # artifact[q].CloneDirectory

\* C13: nothing makes a call wait for another call on the same directory:
\* a reader can always begin a Read and a reader inside a call can always
\* take its next step, whatever the other readers are doing, so the open
\* and the clone of a call are not atomic.
C13_NoLock ==
    \A p \in Readers :
        /\ pc[p] = "ready" => ENABLED Read(p)
        /\ pc[p] \notin {"none", "ready"} => ENABLED Call(p)

C13_Witness ==
    \E p, q \in Readers :
        /\ p # q
        /\ artifact[p].CloneDirectory = artifact[q].CloneDirectory
        /\ call[p].fresh
        /\ call[q].fresh
        /\ Has(trace[p], "clone")
        /\ pc[q] = "clone"
====
